---- MODULE Spec2Model ----
(***************************************************************************)
(* EdgeFinder AIS 8.0 (src/app.py): the retrying generation call           *)
(* generate_safe_content and the RUN TRAFFIC LIGHT AUDIT handler around    *)
(* it, the learning context computed from the betting history, and the    *)
(* history editor's Update Database write followed by the re-read.         *)
(***************************************************************************)
EXTENDS Integers, Sequences, FiniteSets

VARIABLES
    db,               \* TRUE iff get_database_connection() returned a worksheet
    sheet,            \* the worksheet's rows of cells, header row first
    pc,               \* position of the running handler
    i,                \* 1-based position of the retry loop in retry_delays
    attempts,         \* generate_content calls made by the current call
    waits,            \* durations slept by the current call, in order
    trace,            \* the current call's calls and sleeps, in order
    lastErr,          \* message of the last failed attempt of the current call
    ret,              \* what generate_safe_content handed to the handler
    raised,           \* the exception that reached the handler's except clause
    ui,               \* messages rendered during the current handler run
    history_context,  \* result of get_learning_context() in the handler
    prev,             \* outcome of the previous call of generate_safe_content
    calls,            \* audits run so far
    df,               \* the table tab2 read from the worksheet
    edited_df         \* the table held by the data editor

vars == <<db, sheet, pc, i, attempts, waits, trace, lastErr, ret, raised, ui,
          history_context, prev, calls, df, edited_df>>

genVars == <<i, attempts, waits, trace, lastErr, ret, raised, ui, prev, calls>>
storeVars == <<df, edited_df>>

----------------------------------------------------------------------------
(* Bounds *)

MaxCalls == 2       \* audits run in one behaviour
MaxGraded == 12     \* WON rows, and LOST rows, of a history drawn for the context
MaxUngraded == 1    \* Pending rows, and PUSH rows, of such a history
MaxRows == 2        \* data rows of a worksheet or an edited table in the editor

----------------------------------------------------------------------------
(* The worksheet and the tables read from it *)

Results == {"Pending", "WON", "LOST", "PUSH"}
Stakes == {"0", "5"}
Header == <<"Result", "Stake">>
Headers == {Header, <<"Outcome", "Stake">>}

\* gspread's numericise: a cell that reads as a number comes back as an int.
IsNumeric(cell) == cell \in Stakes
numericise(cell) ==
    IF IsNumeric(cell) THEN [t |-> "int", v |-> cell] ELSE [t |-> "str", v |-> cell]

\* A value written to a cell is stored as its text.
ToCell(val) == val.v

Range(s) == {s[n] : n \in DOMAIN s}

\* db.get_all_records(): the first row gives the keys, every later row a record.
get_all_records(s) ==
    IF Len(s) = 0 THEN [keys |-> <<>>, rows |-> <<>>]
    ELSE [keys |-> s[1],
          rows |-> [r \in 1..(Len(s) - 1) |->
                       [c \in 1..Len(s[r + 1]) |-> numericise(s[r + 1][c])]]]

\* pd.DataFrame(data): no records give a frame with no columns.
DataFrame(data) ==
    IF data.rows = <<>> THEN [columns |-> <<>>, values |-> <<>>]
    ELSE [columns |-> data.keys, values |-> data.rows]

EmptyDF == [columns |-> <<>>, values |-> <<>>]

\* db.update(values, "A1"): the given rows overwrite the cells from the top-left
\* cell down; cells outside the written range keep what they held.
update(s, values) ==
    [r \in 1..(IF Len(s) > Len(values) THEN Len(s) ELSE Len(values)) |->
        IF r <= Len(values) THEN values[r] ELSE s[r]]

\* [edited_df.columns.values.tolist()] + edited_df.values.tolist()
updated_data(t) ==
    <<t.columns>> \o [r \in 1..Len(t.values) |->
                        [c \in 1..Len(t.values[r]) |-> ToCell(t.values[r][c])]]

RECURSIVE Repeat(_, _)
Repeat(x, n) == IF n = 0 THEN <<>> ELSE <<x>> \o Repeat(x, n - 1)

\* A history of w WON, l LOST, p Pending and u PUSH rows.
Table(w, l, p, u) ==
    Repeat(<<"WON", "0">>, w) \o Repeat(<<"LOST", "0">>, l)
        \o Repeat(<<"Pending", "0">>, p) \o Repeat(<<"PUSH", "0">>, u)

----------------------------------------------------------------------------
(* get_learning_context *)

Context(kind, text, rate10, directive, divided) ==
    [kind |-> kind, text |-> text, rate10 |-> rate10, directive |-> directive,
     divided |-> divided]

Sentinel(text) == Context("sentinel", text, 0, "none", FALSE)

NoContext == Context("unset", "", 0, "none", FALSE)

\* f"{win_rate:.1f}": the rate in tenths of a percent, rounded half to even.
rate_tenths(wins, total_graded) ==
    LET q == (wins * 1000) \div total_graded
        rem2 == 2 * ((wins * 1000) % total_graded)
    IN  IF rem2 > total_graded \/ (rem2 = total_graded /\ q % 2 = 1)
        THEN q + 1 ELSE q

zone_le(wins, total_graded) ==
    IF wins * 100 <= 45 * total_graded THEN "PROTOCOL C"
    ELSE IF wins * 100 >= 60 * total_graded THEN "PROTOCOL B"
    ELSE "none"

\* win_rate < 45 / win_rate > 60, with win_rate = (wins / total_graded) * 100
zone(wins, total_graded) ==
    IF wins * 100 < 45 * total_graded THEN "PROTOCOL C"
    ELSE IF wins * 100 > 60 * total_graded THEN "PROTOCOL B"
    ELSE "none"

\* The division and what follows it; a zero divisor raises, and the function's
\* except clause turns the exception into the returned text.
win_rate_insight(wins, total_graded) ==
    IF total_graded = 0
    THEN Context("error", "Error reading history: division by zero", 0, "none", TRUE)
    ELSE Context("insight", "Current Win Rate", rate_tenths(wins, total_graded),
                 zone(wins, total_graded), TRUE)

graded_insight_noguard(wins, total_graded) == win_rate_insight(wins, total_graded)

graded_insight(wins, total_graded) ==
    IF total_graded = 0 THEN Sentinel("History: No graded bets yet.")
    ELSE win_rate_insight(wins, total_graded)

ColumnOf(columns, name) == CHOOSE c \in DOMAIN columns : columns[c] = name

CountRows(frame, name, wanted) ==
    Cardinality({r \in DOMAIN frame.values :
                    frame.values[r][ColumnOf(frame.columns, name)].v \in wanted})

get_learning_context(d, s) ==
    IF ~d THEN Sentinel("System Status: New Database. No historical data available.")
    ELSE LET frame == DataFrame(get_all_records(s))
         IN  IF frame.values = <<>> THEN Sentinel("History: Clean Slate.")
             ELSE IF "Result" \notin Range(frame.columns)
             THEN Sentinel("History: Database columns structure error.")
             ELSE graded_insight(CountRows(frame, "Result", {"WON"}),
                                 CountRows(frame, "Result", {"WON", "LOST"}))

\* The history a context is drawn from.
ContextSheets ==
    {<<h>> \o Table(w, l, p, u) :
        h \in Headers, w \in 0..MaxGraded, l \in 0..MaxGraded,
        p \in 0..MaxUngraded, u \in 0..MaxUngraded}

----------------------------------------------------------------------------
(* generate_safe_content and the RUN TRAFFIC LIGHT AUDIT handler *)

\* An error message is known by the markers the code looks for in it.
Tokens == {"404", "NOT_FOUND", "503", "overloaded", "429"}
Msgs == SUBSET Tokens
NoErr == {"none"}

\* What one client.models.generate_content call can do.
Outcomes == {[ok |-> TRUE, msg |-> NoErr]} \cup {[ok |-> FALSE, msg |-> m] : m \in Msgs}

retry_delays_reversed == <<20, 10, 5, 2>>

retry_delays_longer == <<2, 5, 10, 20, 40>>

retry_delays == <<2, 5, 10, 20>>

classify_overload_first(error_msg) ==
    IF error_msg \cap {"503", "overloaded", "429"} # {} THEN "overload"
    ELSE IF error_msg \cap {"404", "NOT_FOUND"} # {} THEN "not_found"
    ELSE "other"

classify_retry_all(error_msg) ==
    IF error_msg \cap {"404", "NOT_FOUND"} # {} THEN "not_found"
    ELSE "overload"

\* The order of the tests on error_msg in the except clause.
classify(error_msg) ==
    IF error_msg \cap {"404", "NOT_FOUND"} # {} THEN "not_found"
    ELSE IF error_msg \cap {"503", "overloaded", "429"} # {} THEN "overload"
    ELSE "other"

\* How a finished call of generate_safe_content ended.
Ending ==
    IF ret = "response" THEN "success"
    ELSE IF ret = "raised" THEN "raised"
    ELSE IF ret = "None" /\ lastErr # NoErr /\ classify(lastErr) = "not_found"
    THEN "not_found"
    ELSE IF ret = "None" THEN "exhausted"
    ELSE "none"

NoPrev == [ending |-> "none", ret |-> "none", attempts |-> 0]

Teams == {"", "Fiorentina"}

\* The button's handler up to the first generate_content call.
RunAudit(home_team, away_team) ==
    /\ pc \in {"idle", "done"}
    /\ calls < MaxCalls
    /\ calls' = calls + 1
    /\ prev' = IF Ending = "none" THEN prev
               ELSE [ending |-> Ending, ret |-> ret, attempts |-> attempts]
    /\ i' = 1
    /\ attempts' = 0
    /\ waits' = <<>>
    /\ trace' = <<>>
    /\ lastErr' = NoErr
    /\ ret' = "none"
    /\ raised' = NoErr
    /\ IF home_team = "" \/ away_team = ""
       THEN /\ ui' = <<"Enter both teams.">>
            /\ pc' = "done"
            /\ UNCHANGED history_context
       ELSE /\ ui' = <<>>
            /\ pc' = "attempt"
            /\ history_context' = get_learning_context(db, sheet)
    /\ UNCHANGED <<db, sheet, storeVars>>

\* What the handler renders for a response.
RenderResponse ==
    <<"NEURAL CONTEXT", "response.text">>
        \o (IF db THEN <<"Save Phoenix Slip">> ELSE <<>>)

AttemptStep_no_return(out) ==
    /\ attempts' = attempts + 1
    /\ trace' = Append(trace, "call")
    /\ lastErr' = out.msg
    /\ ui' = Append(ui, "toast")
    /\ pc' = "sleep"
    /\ UNCHANGED <<i, waits, ret, raised>>

\* One pass of the loop body: the call, and the except clause when it fails.
AttemptStep(out) ==
    /\ attempts' = attempts + 1
    /\ trace' = Append(trace, "call")
    /\ lastErr' = out.msg
    /\ IF out.ok
       THEN /\ ret' = "response"
            /\ ui' = ui \o RenderResponse
            /\ pc' = "done"
            /\ UNCHANGED raised
       ELSE CASE classify(out.msg) = "not_found" ->
                   /\ ui' = Append(ui, "MODEL ERROR")
                   /\ ret' = "None"
                   /\ pc' = "done"
                   /\ UNCHANGED raised
              [] classify(out.msg) = "overload" ->
                   /\ ui' = Append(ui, "toast")
                   /\ pc' = "sleep"
                   /\ UNCHANGED <<ret, raised>>
              [] OTHER ->
                   /\ ret' = "raised"
                   /\ raised' = out.msg
                   /\ ui' = Append(ui, "AIS Core Error")
                   /\ pc' = "done"
    /\ UNCHANGED <<i, waits>>

Attempt ==
    /\ pc = "attempt"
    /\ \E out \in Outcomes : AttemptStep(out)
    /\ UNCHANGED <<db, sheet, history_context, prev, calls, storeVars>>

Sleep_reraise ==
    /\ pc = "sleep"
    /\ waits' = Append(waits, retry_delays[i])
    /\ trace' = Append(trace, "sleep")
    /\ IF i < Len(retry_delays)
       THEN /\ i' = i + 1
            /\ pc' = "attempt"
            /\ UNCHANGED <<ret, raised, ui>>
       ELSE /\ ret' = "raised"
            /\ raised' = lastErr
            /\ ui' = Append(ui, "AIS Core Error")
            /\ pc' = "done"
            /\ UNCHANGED i
    /\ UNCHANGED <<db, sheet, attempts, lastErr, history_context, prev, calls, storeVars>>

\* time.sleep(delay) and continue; after the last delay the loop is over and the
\* function reports the timeout and returns None.
Sleep ==
    /\ pc = "sleep"
    /\ waits' = Append(waits, retry_delays[i])
    /\ trace' = Append(trace, "sleep")
    /\ IF i < Len(retry_delays)
       THEN /\ i' = i + 1
            /\ pc' = "attempt"
            /\ UNCHANGED <<ret, ui>>
       ELSE /\ ret' = "None"
            /\ ui' = Append(ui, "SERVER TIMEOUT")
            /\ pc' = "done"
            /\ UNCHANGED i
    /\ UNCHANGED <<db, sheet, attempts, lastErr, raised, history_context, prev, calls,
                   storeVars>>

\* The histories an audit is run against.
AuditSheets == {<<h>> \o Table(w, l, p, 0) : h \in Headers, w \in 0..1, l \in 0..1, p \in 0..1}

Init ==
    /\ db \in BOOLEAN
    /\ sheet \in AuditSheets
    /\ pc = "idle"
    /\ i = 1
    /\ attempts = 0
    /\ waits = <<>>
    /\ trace = <<>>
    /\ lastErr = NoErr
    /\ ret = "none"
    /\ raised = NoErr
    /\ ui = <<>>
    /\ history_context = NoContext
    /\ prev = NoPrev
    /\ calls = 0
    /\ df = EmptyDF
    /\ edited_df = EmptyDF

Next ==
    \/ \E home_team \in Teams, away_team \in Teams : RunAudit(home_team, away_team)
    \/ Attempt
    \/ Sleep

Spec == Init /\ [][Next]_vars

----------------------------------------------------------------------------
(* The context builder applied to a drawn history *)

InitCtx ==
    /\ db \in BOOLEAN
    /\ sheet \in ContextSheets
    /\ pc = "idle"
    /\ i = 1
    /\ attempts = 0
    /\ waits = <<>>
    /\ trace = <<>>
    /\ lastErr = NoErr
    /\ ret = "none"
    /\ raised = NoErr
    /\ ui = <<>>
    /\ history_context = NoContext
    /\ prev = NoPrev
    /\ calls = 0
    /\ df = EmptyDF
    /\ edited_df = EmptyDF

\* history_context = get_learning_context()
BuildContext ==
    /\ pc = "idle"
    /\ history_context' = get_learning_context(db, sheet)
    /\ pc' = "done"
    /\ UNCHANGED <<db, sheet, genVars, storeVars>>

NextCtx == BuildContext

SpecCtx == InitCtx /\ [][NextCtx]_vars

----------------------------------------------------------------------------
(* tab2: the history editor and Update Database *)

RECURSIVE SeqsUpTo(_, _)
SeqsUpTo(S, n) ==
    IF n = 0 THEN {<<>>}
    ELSE LET shorter == SeqsUpTo(S, n - 1)
         IN  shorter \cup {Append(q, x) : q \in shorter, x \in S}

SheetRows == {<<r, k>> : r \in Results, k \in Stakes}

StoreSheets == {<<Header>> \o rows : rows \in SeqsUpTo(SheetRows, MaxRows)}

\* The rows st.data_editor lets the user reach with num_rows="dynamic": the Result
\* column holds one of the select box's options, the Stake column a number.
EditorRows ==
    {<<[t |-> "str", v |-> r], [t |-> "int", v |-> k]>> : r \in Results, k \in Stakes}

EditorTables(frame) ==
    {[columns |-> frame.columns, values |-> rows] : rows \in SeqsUpTo(EditorRows, MaxRows)}

\* What tab2 reads when the script runs.
ReadTab2(d, s) == IF d THEN DataFrame(get_all_records(s)) ELSE EmptyDF

InitStore ==
    /\ db \in BOOLEAN
    /\ sheet \in StoreSheets
    /\ pc = "idle"
    /\ i = 1
    /\ attempts = 0
    /\ waits = <<>>
    /\ trace = <<>>
    /\ lastErr = NoErr
    /\ ret = "none"
    /\ raised = NoErr
    /\ ui = <<>>
    /\ history_context = NoContext
    /\ prev = NoPrev
    /\ calls = 0
    /\ df = ReadTab2(db, sheet)
    /\ edited_df = ReadTab2(db, sheet)

\* The user edits, adds or deletes rows in the data editor.
EditTable(t) ==
    /\ db
    /\ df.values # <<>>
    /\ t \in EditorTables(df)
    /\ edited_df' = t
    /\ pc' = "edited"
    /\ UNCHANGED <<db, sheet, df, genVars, history_context>>

\* The Update Database button: the write, then st.rerun() reads the sheet again.
UpdateDatabase ==
    /\ db
    /\ df.values # <<>>
    /\ sheet' = update(sheet, updated_data(edited_df))
    /\ df' = ReadTab2(db, sheet')
    /\ edited_df' = edited_df
    /\ ui' = <<"Database Updated!">>
    /\ pc' = "updated"
    /\ UNCHANGED <<db, i, attempts, waits, trace, lastErr, ret, raised, prev, calls,
                   history_context>>

NextStore ==
    \/ \E t \in EditorTables(df) : EditTable(t)
    \/ UpdateDatabase

SpecStore == InitStore /\ [][NextStore]_vars

----------------------------------------------------------------------------
(* The claims *)

Last(q) == q[Len(q)]

\* The classes of failure as the claims word them.
NotFoundClass(m) == m # NoErr /\ m \cap {"404", "NOT_FOUND"} # {}
OverloadClass(m) ==
    m # NoErr /\ ~NotFoundClass(m) /\ m \cap {"429", "503", "overloaded"} # {}
OtherClass(m) == m # NoErr /\ m \cap Tokens = {}

\* All four attempts of the schedule failed and each was followed by its wait.
ScheduleExhausted == pc = "done" /\ attempts = 4 /\ Len(waits) = 4

\* Rows of the worksheet whose Result cell is one of vals.
RowsWith(vals) ==
    IF Len(sheet) = 0 \/ "Result" \notin Range(sheet[1]) THEN 0
    ELSE Cardinality({r \in 2..Len(sheet) :
                         sheet[r][ColumnOf(sheet[1], "Result")] \in vals})

\* C1: after Update Database with the edited table T, the rows read back are
\* exactly the rows of T.
C1_RoundTrip == pc = "updated" => df.values = edited_df.values

\* C2 as claimed: the value returned when the schedule is exhausted differs from
\* the value returned by a call whose first attempt failed as not-found, and no
\* per-attempt error is raised.
C2_Original ==
    (ScheduleExhausted /\ prev.ending = "not_found" /\ prev.attempts = 1)
        => (ret # prev.ret /\ ret # "raised")

\* C2 amended: when the schedule is exhausted the call raises nothing, returns
\* None, and has last rendered the SERVER TIMEOUT message and never the MODEL
\* ERROR message; a not-found failure returns None after the MODEL ERROR message.
C2_Amended ==
    /\ ScheduleExhausted =>
          /\ ret = "None"
          /\ raised = NoErr
          /\ Last(ui) = "SERVER TIMEOUT"
          /\ "MODEL ERROR" \notin Range(ui)
          /\ "AIS Core Error" \notin Range(ui)
    /\ (pc = "done" /\ NotFoundClass(lastErr)) =>
          /\ ret = "None"
          /\ Last(ui) = "MODEL ERROR"
          /\ "SERVER TIMEOUT" \notin Range(ui)

C2_Witness ==
    /\ ScheduleExhausted
    /\ prev.ending = "not_found"
    /\ prev.attempts = 1
    /\ ret = prev.ret

\* C3: once an attempt has failed with a message containing 404 or NOT_FOUND, the
\* call makes no further attempt and performs no wait, whatever preceded it.
C3_NoRetryAfterNotFound ==
    [][NotFoundClass(lastErr) =>
          /\ pc = "done"
          /\ Last(trace) = "call"
          /\ attempts' # attempts + 1
          /\ Len(waits') # Len(waits) + 1]_vars

C3_Witness ==
    /\ NotFoundClass(lastErr)
    /\ "503" \in lastErr
    /\ Len(waits) = 2
    /\ pc = "done"

\* C4: every overload-class failure is followed by the next wait of the schedule
\* 2, 5, 10, 20 before anything else, an attempt after the first is directly
\* preceded by a wait, and the waits never decrease.
C4_BackoffSchedule ==
    /\ waits = SubSeq(<<2, 5, 10, 20>>, 1, Len(waits))
    /\ \A k \in 1..(Len(waits) - 1) : waits[k] <= waits[k + 1]
    /\ \A k \in 2..Len(trace) : trace[k] = "call" => trace[k - 1] = "sleep"
    /\ OverloadClass(lastErr) =>
          \/ pc = "sleep" /\ Len(waits) = attempts - 1
          \/ pc # "sleep" /\ Len(waits) = attempts /\ Last(trace) = "sleep"

C4_Witness ==
    /\ pc = "attempt"
    /\ OverloadClass(lastErr)
    /\ waits = <<2, 5, 10>>
    /\ attempts = 3

\* The handler always attaches the search tool: tools=[google_search_tool].
google_search_attached == TRUE

\* C5: with the search tool attached, an attempt that fails with a 429 error ends
\* the call at once: no wait and no further attempt.
C5_QuotaAbort ==
    (google_search_attached /\ lastErr # NoErr /\ "429" \in lastErr
        /\ ~NotFoundClass(lastErr))
        => (pc = "done" /\ Last(trace) = "call")

\* C6: a failure that is neither not-found nor overload ends the call at that
\* attempt: the error is raised to the handler, which renders it, and no wait
\* follows the attempt.
C6_OtherErrorAborts ==
    OtherClass(lastErr) =>
        /\ pc = "done"
        /\ ret = "raised"
        /\ raised = lastErr
        /\ Last(ui) = "AIS Core Error"
        /\ Last(trace) = "call"
        /\ Len(waits) = attempts - 1

C6_Witness ==
    /\ OtherClass(lastErr)
    /\ ret = "raised"
    /\ attempts = 2
    /\ waits = <<2>>

\* C7: when the first attempt succeeds its response is returned and rendered,
\* with exactly one generation call and no wait.
C7_FirstSuccess ==
    (attempts = 1 /\ lastErr = NoErr) =>
        /\ pc = "done"
        /\ ret = "response"
        /\ trace = <<"call">>
        /\ waits = <<>>
        /\ "response.text" \in Range(ui)

C7_Witness == attempts = 1 /\ lastErr = NoErr /\ ret = "response" /\ pc = "done"

\* C8: with at least one graded row the context is the win-rate insight, the rate
\* being 100 * WON / (WON + LOST) whatever the Pending and PUSH rows; Caution iff
\* the rate is below 45, Aggressive iff it is above 60, no directive otherwise.
C8_Zones ==
    LET won == RowsWith({"WON"})
        graded == RowsWith({"WON", "LOST"})
    IN  (pc = "done" /\ db /\ graded >= 1) =>
            /\ history_context.kind = "insight"
            /\ 2 * history_context.rate10 * graded <= 2000 * won + graded
            /\ 2 * history_context.rate10 * graded >= 2000 * won - graded
            /\ history_context.directive = "PROTOCOL C" <=> 100 * won < 45 * graded
            /\ history_context.directive = "PROTOCOL B" <=> 100 * won > 60 * graded
            /\ history_context.directive
                  \in {"PROTOCOL C", "PROTOCOL B", "none"}

C8_Witness ==
    /\ pc = "done"
    /\ db
    /\ RowsWith({"WON"}) = 9
    /\ RowsWith({"WON", "LOST"}) = 20
    /\ RowsWith({"Pending", "PUSH"}) = 2
    /\ history_context.kind = "insight"
    /\ history_context.rate10 = 450
    /\ history_context.directive = "none"

\* C9: with no graded row the context is a fixed sentinel and the division is
\* never reached: Clean Slate for no rows, No graded bets yet for rows of which
\* none is WON or LOST.
C9_Sentinels ==
    (pc = "done" /\ RowsWith({"WON", "LOST"}) = 0) =>
        /\ history_context.kind = "sentinel"
        /\ ~history_context.divided
        /\ (db /\ Len(sheet) = 1) => history_context.text = "History: Clean Slate."
        /\ (db /\ Len(sheet) > 1 /\ "Result" \in Range(sheet[1])) =>
              history_context.text = "History: No graded bets yet."

C9_Witness ==
    /\ pc = "done"
    /\ db
    /\ "Result" \in Range(sheet[1])
    /\ RowsWith({"Pending", "PUSH"}) = 2
    /\ RowsWith({"WON", "LOST"}) = 0
    /\ history_context.text = "History: No graded bets yet."

\* C10: a call makes at most 4 attempts; when all 4 fail as overloaded the waits
\* are exactly 2, 5, 10, 20, one after each attempt, and the call has returned its
\* failure with the 20s wait as its last step.
C10_BoundedAttempts ==
    /\ attempts <= 4
    /\ Len(waits) <= attempts
    /\ (attempts = 4 /\ Len(waits) = 4) =>
          /\ waits = <<2, 5, 10, 20>>
          /\ trace = <<"call", "sleep", "call", "sleep", "call", "sleep", "call", "sleep">>
          /\ pc = "done"
          /\ ret = "None"

C10_Witness ==
    /\ pc = "done"
    /\ attempts = 4
    /\ waits = <<2, 5, 10, 20>>
    /\ Last(trace) = "sleep"
    /\ ret = "None"

====
